---- MODULE Spec2Model ----
(***************************************************************************)
(* The ACH risk-rule engine of src/src/risk_rules.py and its driver        *)
(* src/src/run_scoring.py.                                                 *)
(*                                                                         *)
(* A DataFrame is a record [columns, rows]: the set of its column names    *)
(* and the sequence of its rows, each row a function from the column names *)
(* to values.  An optional cell (return_code, days_to_return, the          *)
(* risk_score of the left merge) is NaN == <<>> when absent and <<v>> when *)
(* present; amounts are whole dollars.                                     *)
(***************************************************************************)
EXTENDS Integers, Sequences, FiniteSets, TLC

VARIABLES
    store,        \* the Transaction Store as the caller handed it over
    df,           \* the DataFrame object score_transactions works on
    min_users,    \* argument of rule_device_shared_by_many_users
    rules,        \* risk_rules.py:104 the list of rules, in evaluation order
    i,            \* position of the for loop of risk_rules.py:113 in rules
    alerts_list,  \* risk_rules.py:111
    alerts_df,    \* risk_rules.py:118
    scores,       \* risk_rules.py:121
    df_scored,    \* risk_rules.py:129
    result,       \* <<>> or <<df_scored, alerts_df>>: what the call returned
    prev,         \* <<>> or the result of the first call on this store
    error,        \* <<>> or <<exception>>: the exception that ended the run
    written,      \* the files run_scoring.main has written
    pc            \* position of the run

vars == <<store, df, min_users, rules, i, alerts_list, alerts_df, scores,
          df_scored, result, prev, error, written, pc>>

---------------------------------------------------------------------------
(* Bounds of the model. *)

\* free rows of an input store
MaxRows == 2
\* rows of a store handed to the device rule alone
MaxDevRows == 3
\* largest min_users handed to the device rule alone, besides the default
MaxMinUsers == 3
\* rows of a store handed to the rapid-return rule alone
MaxRapidRows == 2

---------------------------------------------------------------------------
(* Values and DataFrames. *)

NaN == <<>>

notna(x) == x # NaN

\* Series.isin: a missing cell is in no list of codes
isin(x, S) == x # NaN /\ x[1] \in S

\* Series <= n: a comparison with NaN is False
le(x, n) == x # NaN /\ x[1] <= n

Frame(cols, rws) == [columns |-> cols, rows |-> rws]

\* the rows of a frame as a set of row positions
Index(d) == 1..Len(d.rows)

EmptyFrame == Frame({}, <<>>)

\* DataFrame.assign(c = v) on one row
AssignRow(r, c, v) == [k \in (DOMAIN r) \cup {c} |-> IF k = c THEN v ELSE r[k]]

\* df[mask].assign(rule_name = name), mask a Boolean per row: the rows whose
\* mask is True, in order, each with the rule's name
Flagged(d, mask, name) ==
    LET hit == SelectSeq([k \in Index(d) |-> k], LAMBDA k : mask[k])
    IN  Frame(d.columns \cup {"rule_name"},
              [j \in 1..Len(hit) |-> AssignRow(d.rows[hit[j]], "rule_name", name)])

KeyError(k) == [type |-> "KeyError", key |-> k]

\* the names an exception's message holds: str(KeyError(k)) is the key alone
ExceptionNames(e) == {e.key}

---------------------------------------------------------------------------
(* The rules, risk_rules.py:15-85. *)

NewUserDays == 30
AmountThreshold == 500
RapidReturnDays == 5
HighRiskCodes == {"R01", "R10", "R29"}
DefaultMinUsers == 5

mask_high_instant_ach_for_new_users(d) ==
    [k \in Index(d) |->
        /\ d.rows[k]["funding_speed"] = "instant"
        /\ d.rows[k]["account_age_days"] < NewUserDays
        /\ d.rows[k]["amount_usd"] > AmountThreshold]

rule_high_instant_ach_for_new_users(d) ==
    Flagged(d, mask_high_instant_ach_for_new_users(d),
            "high_instant_ach_for_new_users")

\* as mask_rapid_high_risk_returns without the test of returned
mask_rapid_any_return_code(d) ==
    [k \in Index(d) |->
        /\ notna(d.rows[k]["days_to_return"])
        /\ le(d.rows[k]["days_to_return"], RapidReturnDays)
        /\ isin(d.rows[k]["return_code"], HighRiskCodes)]

mask_rapid_high_risk_returns(d) ==
    [k \in Index(d) |->
        /\ d.rows[k]["returned"] = TRUE
        /\ notna(d.rows[k]["days_to_return"])
        /\ le(d.rows[k]["days_to_return"], RapidReturnDays)
        /\ isin(d.rows[k]["return_code"], HighRiskCodes)]

rule_rapid_high_risk_returns(d) ==
    Flagged(d, mask_rapid_high_risk_returns(d), "rapid_high_risk_returns")

\* as device_user_counts with count() for nunique(): device -> rows
device_row_counts(d) ==
    LET devices == {d.rows[k]["device_id"] : k \in 1..Len(d.rows)}
    IN  [dev \in devices |->
            Cardinality({j \in 1..Len(d.rows) : d.rows[j]["device_id"] = dev})]

\* df.groupby("device_id")["user_id"].nunique(): device -> distinct users
device_user_counts(d) ==
    LET devices == {d.rows[k]["device_id"] : k \in 1..Len(d.rows)}
    IN  [dev \in devices |->
            Cardinality({d.rows[k]["user_id"] :
                            k \in {j \in 1..Len(d.rows) :
                                      d.rows[j]["device_id"] = dev}})]

suspicious_devices(d, n) ==
    LET counts == device_user_counts(d)
    IN  {dev \in DOMAIN counts : counts[dev] >= n}

rule_device_shared_by_many_users(d, n) ==
    LET sus == suspicious_devices(d, n)
        mask == [k \in Index(d) |-> d.rows[k]["device_id"] \in sus]
    IN  Flagged(d, mask, "device_shared_by_many_users")

\* the rules by the name they tag their rows with
RuleNames == {"high_instant_ach_for_new_users", "rapid_high_risk_returns",
              "device_shared_by_many_users"}

\* risk_rules.py:104-108
RULES == <<"high_instant_ach_for_new_users", "rapid_high_risk_returns",
           "device_shared_by_many_users">>

\* rule(df) of risk_rules.py:114; the device rule runs with its default
CallRule(name, d) ==
    CASE name = "high_instant_ach_for_new_users" ->
             rule_high_instant_ach_for_new_users(d)
      [] name = "rapid_high_risk_returns" ->
             rule_rapid_high_risk_returns(d)
      [] name = "device_shared_by_many_users" ->
             rule_device_shared_by_many_users(d, DefaultMinUsers)

\* the columns a rule looks up, in the order it looks them up
RuleReads(name) ==
    CASE name = "high_instant_ach_for_new_users" ->
             <<"funding_speed", "account_age_days", "amount_usd">>
      [] name = "rapid_high_risk_returns" ->
             <<"returned", "days_to_return", "return_code">>
      [] name = "device_shared_by_many_users" ->
             <<"device_id", "user_id">>

\* df[c] raises KeyError(c) for a column the frame lacks: the lookups that fail
MissingReads(name, d) ==
    LET absent(c) == c \notin d.columns
    IN  SelectSeq(RuleReads(name), absent)

---------------------------------------------------------------------------
(* The aggregation of score_transactions, risk_rules.py:117-132. *)

RECURSIVE concat_rows(_)
concat_rows(list) ==
    IF list = <<>> THEN <<>> ELSE Head(list).rows \o concat_rows(Tail(list))

\* as concat, followed by drop_duplicates("transaction_id") where the alerts
\* hold that column: the first alert of each transaction only
RECURSIVE first_per_transaction(_)
first_per_transaction(rws) ==
    IF rws = <<>> THEN <<>>
    ELSE <<Head(rws)>> \o
         first_per_transaction(
             SelectSeq(Tail(rws), LAMBDA r : r["transaction_id"]
                                             # Head(rws)["transaction_id"]))

concat_drop_duplicates(list) ==
    LET cols == UNION {list[k].columns : k \in 1..Len(list)}
    IN  Frame(cols, IF "transaction_id" \in cols
                    THEN first_per_transaction(concat_rows(list))
                    ELSE concat_rows(list))

\* pd.concat(alerts_list, ignore_index=True): the frames' rows, one frame
\* after the other
concat(list) ==
    Frame(UNION {list[k].columns : k \in 1..Len(list)}, concat_rows(list))

\* the distinct values of a column, in the order of their first row (the
\* order groupby gives its groups is not observable after the left merge)
RECURSIVE group_keys(_, _)
group_keys(rws, c) ==
    IF rws = <<>> THEN <<>>
    ELSE LET rest == group_keys(SelectSeq(Tail(rws),
                                          LAMBDA r : r[c] # Head(rws)[c]), c)
         IN  <<Head(rws)[c]>> \o rest

\* alerts_df.groupby("transaction_id")["rule_name"].count().reset_index()
\* .rename(columns={"rule_name": "risk_score"}): per transaction_id, the
\* number of alert rows that hold a rule_name
groupby_count(alerts) ==
    LET keys == group_keys(alerts.rows, "transaction_id")
        hits(t) == Cardinality({k \in Index(alerts) :
                                  /\ alerts.rows[k]["transaction_id"] = t
                                  /\ alerts.rows[k]["rule_name"] \in RuleNames})
    IN  Frame({"transaction_id", "risk_score"},
              [k \in 1..Len(keys) |->
                  [transaction_id |-> keys[k], risk_score |-> hits(keys[k])]])

\* the rows one left row gives in df.merge(right, on="transaction_id",
\* how="left"): one per right row of its key, and one with a missing
\* risk_score when the right frame has no row of its key
RECURSIVE merge_rows(_, _)
merge_rows(left, right) ==
    IF left = <<>> THEN <<>>
    ELSE LET l == Head(left)
             m == SelectSeq(right,
                      LAMBDA r : r["transaction_id"] = l["transaction_id"])
             out == IF m = <<>>
                    THEN <<AssignRow(l, "risk_score", NaN)>>
                    ELSE [k \in 1..Len(m) |->
                             AssignRow(l, "risk_score", <<m[k]["risk_score"]>>)]
         IN  out \o merge_rows(Tail(left), right)

\* as merge_left with how="inner": a row without a score is dropped
merge_inner(d, right) ==
    Frame(d.columns \cup {"risk_score"},
          SelectSeq(merge_rows(d.rows, right.rows),
                    LAMBDA r : r["risk_score"] # NaN))

merge_left(d, right) ==
    Frame(d.columns \cup {"risk_score"}, merge_rows(d.rows, right.rows))

\* df_scored["risk_score"].fillna(0).astype(int)
fillna_astype_int(d) ==
    Frame(d.columns,
          [k \in 1..Len(d.rows) |->
              AssignRow(d.rows[k], "risk_score",
                        IF d.rows[k]["risk_score"] = NaN THEN 0
                        ELSE d.rows[k]["risk_score"][1])])

---------------------------------------------------------------------------
(* The input stores. *)

Columns == {"transaction_id", "user_id", "device_id", "funding_speed",
            "account_age_days", "amount_usd", "returned", "return_code",
            "days_to_return"}

Txn(t, u, dev, fs, age, amt, ret, code, days) ==
    [transaction_id |-> t, user_id |-> u, device_id |-> dev,
     funding_speed |-> fs, account_age_days |-> age, amount_usd |-> amt,
     returned |-> ret, return_code |-> code, days_to_return |-> days]

\* funding_speed, account_age_days, amount_usd
InstantNewLarge == <<"instant", 5, 600>>
InstantNewSmall == <<"instant", 5, 400>>

\* returned, return_code, days_to_return
NoReturn == <<FALSE, NaN, NaN>>
RapidR01 == <<TRUE, <<"R01">>, <<3>>>>
SlowR01 == <<TRUE, <<"R01">>, <<10>>>>
\* two records that break the return invariant
CodeNotReturned == <<FALSE, <<"R01">>, <<3>>>>
ReturnedNoCode == <<TRUE, NaN, NaN>>

RowProfiles == {<<InstantNewLarge, NoReturn>>, <<InstantNewSmall, NoReturn>>,
                <<InstantNewLarge, RapidR01>>, <<InstantNewSmall, SlowR01>>,
                <<InstantNewSmall, CodeNotReturned>>,
                <<InstantNewSmall, ReturnedNoCode>>}

\* user_id, device_id
UserDevices == {<<"user_5", "device_9">>, <<"user_6", "device_3">>}

TxnIds == {"txn_1", "txn_2"}

FreeRows ==
    {Txn(t, ud[1], ud[2], p[1][1], p[1][2], p[1][3],
         p[2][1], p[2][2], p[2][3]) :
        t \in TxnIds, ud \in UserDevices, p \in RowProfiles}

\* four unremarkable transactions of four users on device_9
Farm ==
    [k \in 1..4 |->
        Txn(<<"txn_3", "txn_4", "txn_5", "txn_6">>[k],
            <<"user_1", "user_2", "user_3", "user_4">>[k],
            "device_9", "standard", 200, 100, FALSE, NaN, NaN)]

SeqsUpTo(S, n) == UNION {[1..k -> S] : k \in 0..n}

Stores ==
    SeqsUpTo(FreeRows, MaxRows)
        \cup {Farm \o s : s \in SeqsUpTo(FreeRows, MaxRows - 1)}

\* the columns a store may lack
MissingChoices ==
    {{}} \cup {{c} : c \in Columns}
         \cup {{"amount_usd", "returned"}, {"return_code", "user_id"}}

DropColumns(rws, m) ==
    [k \in 1..Len(rws) |-> [c \in Columns \ m |-> rws[k][c]]]

RuleOrders ==
    {o \in [1..3 -> RuleNames] : \A a, b \in 1..3 : a # b => o[a] # o[b]}

---------------------------------------------------------------------------
(* run_scoring.main and score_transactions, step by step. *)

Init ==
    /\ \E s \in Stores, m \in MissingChoices :
          store = Frame(Columns \ m, DropColumns(s, m))
    /\ df = store
    /\ min_users = DefaultMinUsers
    /\ rules = <<>>
    /\ i = 0
    /\ alerts_list = <<>>
    /\ alerts_df = EmptyFrame
    /\ scores = EmptyFrame
    /\ df_scored = EmptyFrame
    /\ result = <<>>
    /\ prev = <<>>
    /\ error = <<>>
    /\ written = {}
    /\ pc = "call"

\* risk_rules.py:104-111: the call binds the rule list and an empty
\* alerts_list.  The first call on a store evaluates the rules in the order
\* of the source; a later call on the same store in any order.
EnterScore ==
    /\ pc = "call"
    /\ \E o \in (IF prev = <<>> THEN {RULES} ELSE RuleOrders) : rules' = o
    /\ alerts_list' = <<>>
    /\ i' = 1
    /\ pc' = "loop"
    /\ UNCHANGED <<store, df, min_users, alerts_df, scores, df_scored,
                   result, prev, error, written>>

\* as ApplyRule, with each rule looking only at the transactions no earlier
\* rule of the list has flagged
ApplyRuleToUnflagged ==
    /\ pc = "loop"
    /\ i <= Len(rules)
    /\ MissingReads(rules[i], df) = <<>>
    /\ LET seen == concat_rows(alerts_list)
           fresh(r) == \/ "transaction_id" \notin df.columns
                       \/ \A k \in 1..Len(seen) :
                             seen[k]["transaction_id"] # r["transaction_id"]
       IN  alerts_list' =
               Append(alerts_list,
                      CallRule(rules[i],
                               Frame(df.columns, SelectSeq(df.rows, fresh))))
    /\ i' = i + 1
    /\ UNCHANGED <<store, df, min_users, rules, alerts_df, scores, df_scored,
                   result, prev, error, written, pc>>

\* as ApplyRule, with the rule tagging the rows of the caller's frame in
\* place (df.loc[mask, "rule_name"] = name) before it returns them
ApplyRuleInPlace ==
    /\ pc = "loop"
    /\ i <= Len(rules)
    /\ MissingReads(rules[i], df) = <<>>
    /\ alerts_list' = Append(alerts_list, CallRule(rules[i], df))
    /\ df' = Frame(df.columns \cup {"rule_name"},
                   [k \in 1..Len(df.rows) |->
                       AssignRow(df.rows[k], "rule_name", rules[i])])
    /\ i' = i + 1
    /\ UNCHANGED <<store, min_users, rules, alerts_df, scores, df_scored,
                   result, prev, error, written, pc>>

\* risk_rules.py:113-115: one turn of the loop, the rule returns a frame
ApplyRule ==
    /\ pc = "loop"
    /\ i <= Len(rules)
    /\ MissingReads(rules[i], df) = <<>>
    /\ alerts_list' = Append(alerts_list, CallRule(rules[i], df))
    /\ i' = i + 1
    /\ UNCHANGED <<store, df, min_users, rules, alerts_df, scores, df_scored,
                   result, prev, error, written, pc>>

\* as RuleRaises, with the loop skipping a rule whose column is missing
RuleSkipped ==
    /\ pc = "loop"
    /\ i <= Len(rules)
    /\ MissingReads(rules[i], df) # <<>>
    /\ i' = i + 1
    /\ UNCHANGED <<store, df, min_users, rules, alerts_list, alerts_df,
                   scores, df_scored, result, prev, error, written, pc>>

\* as RuleRaises, with the loop catching the failure, recording it and
\* going on to aggregate the alerts collected so far
RuleFailureLogged ==
    /\ pc = "loop"
    /\ i <= Len(rules)
    /\ MissingReads(rules[i], df) # <<>>
    /\ error' = <<KeyError(Head(MissingReads(rules[i], df)))>>
    /\ alerts_df' = concat(alerts_list)
    /\ scores' = Frame({"transaction_id", "risk_score"}, <<>>)
    /\ df_scored' = Frame(df.columns, df.rows)
    /\ pc' = "return"
    /\ UNCHANGED <<store, df, min_users, rules, i, alerts_list, result, prev,
                   written>>

\* risk_rules.py:114: the rule looks up a column the frame lacks; nothing
\* catches the KeyError, in score_transactions or in run_scoring.main
RuleRaises ==
    /\ pc = "loop"
    /\ i <= Len(rules)
    /\ MissingReads(rules[i], df) # <<>>
    /\ error' = <<KeyError(Head(MissingReads(rules[i], df)))>>
    /\ pc' = "raised"
    /\ UNCHANGED <<store, df, min_users, rules, i, alerts_list, alerts_df,
                   scores, df_scored, result, prev, written>>

\* as ConcatAlerts, with the frames that hold no row left out of the list:
\* pd.concat raises ValueError on an empty list
ConcatNonEmpty ==
    /\ pc = "loop"
    /\ i > Len(rules)
    /\ LET some == SelectSeq(alerts_list, LAMBDA f : f.rows # <<>>)
       IN  IF some = <<>>
           THEN /\ error' = <<[type |-> "ValueError",
                               key |-> "No objects to concatenate"]>>
                /\ pc' = "raised"
                /\ UNCHANGED alerts_df
           ELSE /\ alerts_df' = concat(some)
                /\ pc' = "groupby"
                /\ UNCHANGED error
    /\ UNCHANGED <<store, df, min_users, rules, i, alerts_list, scores,
                   df_scored, result, prev, written>>

\* risk_rules.py:118: the three frames are concatenated, empty or not
ConcatAlerts ==
    /\ pc = "loop"
    /\ i > Len(rules)
    /\ alerts_df' = concat(alerts_list)
    /\ pc' = "groupby"
    /\ UNCHANGED <<store, df, min_users, rules, i, alerts_list, scores,
                   df_scored, result, prev, error, written>>

\* risk_rules.py:121-126
GroupByCount ==
    /\ pc = "groupby"
    /\ "transaction_id" \in alerts_df.columns
    /\ scores' = groupby_count(alerts_df)
    /\ pc' = "merge"
    /\ UNCHANGED <<store, df, min_users, rules, i, alerts_list, alerts_df,
                   df_scored, result, prev, error, written>>

\* risk_rules.py:122: groupby on a column the alerts lack
GroupByRaises ==
    /\ pc = "groupby"
    /\ "transaction_id" \notin alerts_df.columns
    /\ error' = <<KeyError("transaction_id")>>
    /\ pc' = "raised"
    /\ UNCHANGED <<store, df, min_users, rules, i, alerts_list, alerts_df,
                   scores, df_scored, result, prev, written>>

\* risk_rules.py:129
MergeScores ==
    /\ pc = "merge"
    /\ df_scored' = merge_left(df, scores)
    /\ pc' = "fillna"
    /\ UNCHANGED <<store, df, min_users, rules, i, alerts_list, alerts_df,
                   scores, result, prev, error, written>>

\* risk_rules.py:132
FillNa ==
    /\ pc = "fillna"
    /\ df_scored' = fillna_astype_int(df_scored)
    /\ pc' = "return"
    /\ UNCHANGED <<store, df, min_users, rules, i, alerts_list, alerts_df,
                   scores, result, prev, error, written>>

\* risk_rules.py:134 and run_scoring.py:26: the caller receives the pair and
\* the locals of the call are gone
ReturnScored ==
    /\ pc = "return"
    /\ result' = <<df_scored, alerts_df>>
    /\ alerts_list' = <<>>
    /\ alerts_df' = EmptyFrame
    /\ scores' = EmptyFrame
    /\ df_scored' = EmptyFrame
    /\ i' = 0
    /\ pc' = "returned"
    /\ UNCHANGED <<store, df, min_users, rules, prev, error, written>>

\* a caller scores the same DataFrame again; the result of the first call
\* is kept to compare with
ScoreAgain ==
    /\ pc = "returned"
    /\ prev' = IF prev = <<>> THEN result ELSE prev
    /\ result' = <<>>
    /\ pc' = "call"
    /\ UNCHANGED <<store, df, min_users, rules, i, alerts_list, alerts_df,
                   scores, df_scored, error, written>>

\* run_scoring.py:44
WriteScored ==
    /\ pc = "returned"
    /\ written' = written \cup {"data/ach_transactions_scored.csv"}
    /\ pc' = "to_csv_alerts"
    /\ UNCHANGED <<store, df, min_users, rules, i, alerts_list, alerts_df,
                   scores, df_scored, result, prev, error>>

\* run_scoring.py:47
WriteAlerts ==
    /\ pc = "to_csv_alerts"
    /\ written' = written \cup {"data/alerts.csv"}
    /\ pc' = "done"
    /\ UNCHANGED <<store, df, min_users, rules, i, alerts_list, alerts_df,
                   scores, df_scored, result, prev, error>>

Next ==
    \/ EnterScore
    \/ ApplyRule
    \/ RuleRaises
    \/ ConcatAlerts
    \/ GroupByCount
    \/ GroupByRaises
    \/ MergeScores
    \/ FillNa
    \/ ReturnScored
    \/ ScoreAgain
    \/ WriteScored
    \/ WriteAlerts

Spec == Init /\ [][Next]_vars

---------------------------------------------------------------------------
(* What the claims speak of. *)

\* the two values a completed call returned
Scored == result[1]
Alerts == result[2]

\* the (transaction_id, rule_name) pair of an alert
PairOf(r) == <<r["transaction_id"], r["rule_name"]>>

\* the (transaction_id, rule_name) pairs of an alert table
AlertPairs(a) == {PairOf(a.rows[k]) : k \in Index(a)}

\* the distinct rule names an alert table holds for a transaction_id
RulesOf(a, t) == {p[2] : p \in {q \in AlertPairs(a) : q[1] = t}}

\* the columns the built-in rules read
RuleFields == UNION {{RuleReads(n)[k] : k \in 1..Len(RuleReads(n))} : n \in RuleNames}

\* the return invariant of a transaction
ReturnInvariant(r) ==
    /\ (r["returned"] = TRUE) <=> notna(r["return_code"])
    /\ notna(r["days_to_return"]) <=> (r["returned"] = TRUE)

\* the run is inside a rule of the list
InRule == i \in 1..Len(rules)

---------------------------------------------------------------------------
C2_ScoredPreservesStore ==
    pc = "returned" =>
        /\ Scored.columns = store.columns \cup {"risk_score"}
        /\ Len(Scored.rows) = Len(store.rows)
        /\ \A k \in Index(Scored) :
              /\ DOMAIN Scored.rows[k] = Scored.columns
              /\ \A c \in store.columns : Scored.rows[k][c] = store.rows[k][c]
              /\ Scored.rows[k]["risk_score"] \in Nat

C2_Witness ==
    /\ pc = "returned"
    /\ \E k \in Index(Scored) : Scored.rows[k]["risk_score"] = 0
    /\ \E k \in Index(Scored) : Scored.rows[k]["risk_score"] > 0

C4_MissingFieldRaisesKeyError ==
    RuleFields \ store.columns # {} =>
        /\ pc \in {"call", "loop", "raised"}
        /\ result = <<>> /\ written = {}
        /\ df = store
        /\ pc = "loop" =>
              \A j \in 1..(i - 1) : MissingReads(rules[j], store) = <<>>
        /\ pc = "raised" =>
              /\ InRule
              /\ \A j \in 1..(i - 1) : MissingReads(rules[j], store) = <<>>
              /\ \E f \in RuleFields \ store.columns :
                    /\ f \in {RuleReads(rules[i])[k] : k \in 1..Len(RuleReads(rules[i]))}
                    /\ error = <<KeyError(f)>>
                    /\ ExceptionNames(error[1]) = {f}

C4_Witness ==
    /\ pc = "raised"
    /\ i = 2
    /\ RuleFields \ store.columns = {"return_code", "user_id"}
    /\ error = <<KeyError("return_code")>>

(* C4 as claimed: a store that lacks a rule's column is never scored, and   *)
(* its error names the missing column and the rule that needs it.           *)
C4_ErrorNamesFieldAndRule ==
    RuleFields \ store.columns # {} =>
        /\ result = <<>> /\ written = {}
        /\ (pc = "raised" /\ InRule) =>
              \E f \in RuleFields \ store.columns :
                  {f, rules[i]} \subseteq ExceptionNames(error[1])

(* C5: a store with a transaction that breaks the return invariant is not   *)
(* scored as if it were well-formed: no such record is in a returned scored *)
(* table.  The code checks nothing and returns it scored.                   *)
C5_InvariantViolationRejected ==
    pc = "returned" =>
        \A k \in Index(Scored) : ReturnInvariant(Scored.rows[k])

(* C6 as the code has it: when a rule fails, the exception it raised ends   *)
(* the run as it is; the alerts collected so far are not aggregated,        *)
(* score_transactions returns nothing and neither file is written.          *)
C6_RuleFailureAbortsWithoutOutput ==
    /\ (\E n \in RuleNames : MissingReads(n, store) # <<>>) =>
          /\ pc \notin {"return", "returned", "to_csv_alerts", "done"}
          /\ result = <<>> /\ written = {}
    /\ (pc = "raised" /\ InRule) =>
          /\ error = <<KeyError(Head(MissingReads(rules[i], df)))>>
          /\ alerts_df = EmptyFrame /\ scores = EmptyFrame /\ df_scored = EmptyFrame
          /\ result = <<>> /\ written = {}

C6_Witness ==
    /\ pc = "raised"
    /\ i = 3
    /\ \E k \in 1..Len(alerts_list) : alerts_list[k].rows # <<>>

(* C6 as claimed: the failure is attributed to the name of the rule that    *)
(* failed, and nothing is returned or written.                              *)
C6_FailureAttributedToRule ==
    (pc = "raised" /\ InRule) =>
        /\ rules[i] \in ExceptionNames(error[1])
        /\ result = <<>> /\ written = {}

(* C7: scoring a store without rows, all columns present, is no error: the  *)
(* run never raises, it can always go on until main is done, and the call   *)
(* returns a scored table and an alert table without rows.                  *)
C7_EmptyStoreScores ==
    (store.rows = <<>> /\ store.columns = Columns) =>
        /\ pc # "raised" /\ error = <<>>
        /\ pc = "done" \/ ENABLED Next
        /\ pc = "returned" =>
              /\ Scored = Frame(Columns \cup {"risk_score"}, <<>>)
              /\ Alerts = Frame(Columns \cup {"rule_name"}, <<>>)

C7_Witness ==
    /\ store.rows = <<>> /\ store.columns = Columns
    /\ pc = "done"
    /\ Scored.rows = <<>> /\ Alerts.rows = <<>>
    /\ written = {"data/ach_transactions_scored.csv", "data/alerts.csv"}

(* C8: whatever the order of the rule list, the call returns the same set   *)
(* of (transaction_id, rule_name) pairs, each as often, and the same        *)
(* risk_score for every transaction, as in the order of the source.         *)
C8_RuleOrderIrrelevant ==
    (pc = "returned" /\ prev # <<>>) =>
        /\ AlertPairs(Alerts) = AlertPairs(prev[2])
        /\ \A p \in AlertPairs(Alerts) :
              Cardinality({k \in Index(Alerts) : PairOf(Alerts.rows[k]) = p})
                  = Cardinality({k \in Index(prev[2]) : PairOf(prev[2].rows[k]) = p})
        /\ Len(Scored.rows) = Len(prev[1].rows)
        /\ \A k \in Index(Scored) :
              Scored.rows[k]["risk_score"] = prev[1].rows[k]["risk_score"]

C8_Witness ==
    /\ pc = "returned" /\ prev # <<>>
    /\ rules = <<"device_shared_by_many_users", "rapid_high_risk_returns",
                 "high_instant_ach_for_new_users">>
    /\ Alerts.rows # prev[2].rows
    /\ \E k \in Index(Scored) : Scored.rows[k]["risk_score"] >= 2

(* C9: a second call on the same store, rules in the order of the source,   *)
(* returns the very tables of the first, and at every point of every call   *)
(* the caller's store has the rows, columns and values it came with.        *)
C9_IdempotentInputUntouched ==
    /\ df = store
    /\ "rule_name" \notin df.columns /\ "risk_score" \notin df.columns
    /\ (pc = "returned" /\ prev # <<>> /\ rules = RULES) => result = prev

C9_Witness ==
    /\ pc = "returned" /\ prev # <<>> /\ rules = RULES
    /\ Alerts.rows # <<>>
    /\ \E k \in Index(Scored) : Scored.rows[k]["risk_score"] = 0

---------------------------------------------------------------------------
(* rule_device_shared_by_many_users on its own, risk_rules.py:56-85. *)

DeviceColumns == {"transaction_id", "user_id", "device_id"}

TxnName == <<"txn_1", "txn_2", "txn_3", "txn_4", "txn_5", "txn_6", "txn_7",
             "txn_8", "txn_9">>

DeviceRow(k, u, dev) == [transaction_id |-> TxnName[k], user_id |-> u, device_id |-> dev]

DeviceUsers == {"user_1", "user_2", "user_3"}

DeviceIds == {"device_9", "device_3"}

\* six transactions of five users on device_9, two of two users on device_3
ExampleStore ==
    <<DeviceRow(1, "user_1", "device_9"), DeviceRow(2, "user_2", "device_9"),
      DeviceRow(3, "user_6", "device_3"), DeviceRow(4, "user_3", "device_9"),
      DeviceRow(5, "user_1", "device_9"), DeviceRow(6, "user_4", "device_9"),
      DeviceRow(7, "user_7", "device_3"), DeviceRow(8, "user_5", "device_9")>>

DeviceStores ==
    {[k \in 1..Len(s) |-> DeviceRow(k, s[k][1], s[k][2])] :
        s \in SeqsUpTo(DeviceUsers \X DeviceIds, MaxDevRows)}
        \cup {ExampleStore}

InitDevice ==
    /\ \E s \in DeviceStores : store = Frame(DeviceColumns, s)
    /\ df = store
    /\ min_users \in (1..MaxMinUsers) \cup {DefaultMinUsers}
    /\ rules = <<"device_shared_by_many_users">>
    /\ i = 1
    /\ alerts_list = <<>>
    /\ alerts_df = EmptyFrame
    /\ scores = EmptyFrame
    /\ df_scored = EmptyFrame
    /\ result = <<>>
    /\ prev = <<>>
    /\ error = <<>>
    /\ written = {}
    /\ pc = "device_call"

\* risk_rules.py:56-85, one call
CallDeviceRule ==
    /\ pc = "device_call"
    /\ alerts_list' = <<rule_device_shared_by_many_users(df, min_users)>>
    /\ pc' = "device_returned"
    /\ UNCHANGED <<store, df, min_users, rules, i, alerts_df, scores,
                   df_scored, result, prev, error, written>>

NextDevice == CallDeviceRule

SpecDevice == InitDevice /\ [][NextDevice]_vars

\* the distinct user_ids the store holds for a device
UsersOf(d, dev) ==
    {d.rows[k]["user_id"] : k \in {j \in Index(d) : d.rows[j]["device_id"] = dev}}

\* the rows of the store on a device of at least n distinct users
SharedRows(d, n) ==
    {k \in Index(d) : Cardinality(UsersOf(d, d.rows[k]["device_id"])) >= n}

(* C10: the device rule returns exactly the transactions whose device_id    *)
(* has, over the whole store, at least min_users distinct user_ids: each of *)
(* them once, repeated transactions of one user too, tagged with the rule's *)
(* name and otherwise unchanged, and no other.                              *)
C10_DeviceRuleFlagsSharedDevices ==
    pc = "device_returned" =>
        LET out == alerts_list[1]
        IN  /\ out.columns = store.columns \cup {"rule_name"}
            /\ Len(out.rows) = Cardinality(SharedRows(store, min_users))
            /\ \A k \in SharedRows(store, min_users) :
                  \E j \in Index(out) :
                      out.rows[j] = AssignRow(store.rows[k], "rule_name",
                                              "device_shared_by_many_users")
            /\ \A j \in Index(out) :
                  \E k \in SharedRows(store, min_users) :
                      out.rows[j]["transaction_id"] = store.rows[k]["transaction_id"]

C10_Witness ==
    /\ pc = "device_returned"
    /\ store.rows = ExampleStore
    /\ min_users = DefaultMinUsers
    /\ {alerts_list[1].rows[j]["transaction_id"] : j \in Index(alerts_list[1])}
         = {"txn_1", "txn_2", "txn_4", "txn_5", "txn_6", "txn_8"}

---------------------------------------------------------------------------
(* rule_rapid_high_risk_returns on its own, risk_rules.py:35-53. *)

RapidColumns == {"transaction_id", "returned", "return_code", "days_to_return"}

RapidRow(k, ret, code, days) ==
    [transaction_id |-> TxnName[k], returned |-> ret, return_code |-> code,
     days_to_return |-> days]

ReturnCodes == {NaN, <<"R01">>, <<"R10">>, <<"R29">>, <<"R02">>}

DaysToReturn == {NaN, <<3>>, <<5>>, <<6>>, <<10>>}

\* a transaction without return, an R01 return after 3 days and one after 10
ExampleReturns ==
    <<RapidRow(1, FALSE, NaN, NaN), RapidRow(2, TRUE, <<"R01">>, <<3>>),
      RapidRow(3, TRUE, <<"R01">>, <<10>>)>>

RapidStores ==
    {[k \in 1..Len(s) |-> RapidRow(k, s[k][1], s[k][2], s[k][3])] :
        s \in SeqsUpTo(BOOLEAN \X ReturnCodes \X DaysToReturn, MaxRapidRows)}
        \cup {ExampleReturns}

\* the columns of the rule a store may lack
RapidMissingChoices ==
    {{}, {"returned"}, {"days_to_return"}, {"return_code"}}

InitRapid ==
    /\ \E s \in RapidStores, m \in RapidMissingChoices :
          store = Frame(RapidColumns \ m,
                        [k \in 1..Len(s) |-> [c \in RapidColumns \ m |-> s[k][c]]])
    /\ df = store
    /\ min_users = DefaultMinUsers
    /\ rules = <<"rapid_high_risk_returns">>
    /\ i = 1
    /\ alerts_list = <<>>
    /\ alerts_df = EmptyFrame
    /\ scores = EmptyFrame
    /\ df_scored = EmptyFrame
    /\ result = <<>>
    /\ prev = <<>>
    /\ error = <<>>
    /\ written = {}
    /\ pc = "rapid_call"

\* risk_rules.py:35-53, one call that returns
CallRapidRule ==
    /\ pc = "rapid_call"
    /\ MissingReads("rapid_high_risk_returns", df) = <<>>
    /\ alerts_list' = <<rule_rapid_high_risk_returns(df)>>
    /\ pc' = "rapid_returned"
    /\ UNCHANGED <<store, df, min_users, rules, i, alerts_df, scores,
                   df_scored, result, prev, error, written>>

\* risk_rules.py:46-51: a lookup of a column the frame lacks raises
RapidRuleRaises ==
    /\ pc = "rapid_call"
    /\ MissingReads("rapid_high_risk_returns", df) # <<>>
    /\ error' = <<KeyError(Head(MissingReads("rapid_high_risk_returns", df)))>>
    /\ pc' = "raised"
    /\ UNCHANGED <<store, df, min_users, rules, i, alerts_list, alerts_df,
                   scores, df_scored, result, prev, written>>

NextRapid ==
    \/ CallRapidRule
    \/ RapidRuleRaises

SpecRapid == InitRapid /\ [][NextRapid]_vars

\* a transaction returned within 5 days with a high-risk code
RapidHighRisk(r) ==
    /\ r["returned"] = TRUE
    /\ r["days_to_return"] # NaN /\ r["days_to_return"][1] <= 5
    /\ r["return_code"] \in {<<"R01">>, <<"R10">>, <<"R29">>}

(* C11: the rapid-return rule flags a transaction if and only if returned   *)
(* is true, days_to_return is present and at most 5, and return_code is one *)
(* of R01, R10, R29; on a store that holds its three columns the call       *)
(* always returns, without error, whatever the cells hold: a transaction    *)
(* with no return_code and no days_to_return is not flagged.                *)
C11_RapidRuleFlagsRapidHighRisk ==
    /\ RapidColumns \subseteq store.columns =>
          /\ pc # "raised" /\ error = <<>>
          /\ pc = "rapid_call" => ENABLED CallRapidRule
    /\ pc = "rapid_returned" =>
          LET out == alerts_list[1]
              hits == {k \in Index(store) : RapidHighRisk(store.rows[k])}
          IN  /\ out.columns = store.columns \cup {"rule_name"}
              /\ Len(out.rows) = Cardinality(hits)
              /\ \A k \in Index(store) :
                    (k \in hits) <=>
                        \E j \in Index(out) :
                            out.rows[j] = AssignRow(store.rows[k], "rule_name",
                                                    "rapid_high_risk_returns")

C11_Witness ==
    /\ pc = "rapid_returned"
    /\ store.rows = ExampleReturns
    /\ error = <<>>
    /\ Len(alerts_list[1].rows) = 1
    /\ alerts_list[1].rows[1]["transaction_id"] = "txn_2"

====
